---- MODULE Spec2Model ----
(***************************************************************************)
(* A model of src/main.c (git-commit-ai): main, call_claude_api with the   *)
(* WriteMemoryCallback accumulator, parse_claude_response and              *)
(* save_results_to_file.                                                   *)
(*                                                                         *)
(* C strings are sequences of byte values without the terminator; a        *)
(* pointer is NULL (the empty sequence) or Ptr(s) (a one-element sequence  *)
(* holding the string).  Every malloc/realloc, every file operation and    *)
(* every library call that can fail is a nondeterministic choice at the    *)
(* step that makes it.                                                     *)
(***************************************************************************)
EXTENDS Integers, Sequences, FiniteSets, TLC

\* ---------------------------------------------------------------- bounds
MaxBody == 3        \* most bytes the server sends in one response
MaxChunkLen == 2    \* most bytes curl hands to one WriteMemoryCallback call
MaxChunks == 3      \* most WriteMemoryCallback calls in one transfer
MaxGarbage == 1     \* most bytes read past an unterminated 1-byte buffer
MaxText == 5        \* most characters of content[0].text
MaxItems == 2       \* most items of the "content" array

\* ------------------------------------------------------- program constants
NUL == 0            \* the string terminator
NL == 10            \* '\n'
CR == 13            \* '\r'
HTTP_OK_LO == 200   \* http_code >= 200
HTTP_OK_HI == 300   \* http_code < 300

Byte == {NUL, 97, 98}
Char == {NL, CR, 32, 97}
HttpCodes == {199, 200, 299, 300, 404}

NULL == << >>
Ptr(s) == << s >>
Deref(p) == p[1]

\* All sequences over S of length at most n.
SeqUpTo(S, n) == UNION {[1..k -> S] : k \in 0..n}

\* ---------------------------------------------------------------- state
VARIABLES
    pc,             \* position in main / call_claude_api
    opt,            \* main's option locals after getopt
    live,           \* heap allocations and handles currently held
    chunk,          \* struct MemoryStruct chunk: memory (allocated bytes), size
    delivered,      \* history: the bytes curl passed to WriteMemoryCallback, in order
    nchunks,        \* history: number of WriteMemoryCallback calls
    growth_failed,  \* history: some realloc in WriteMemoryCallback returned NULL
    posts,          \* history: number of curl_easy_perform calls
    res,            \* CURLcode res: "unset", "CURLE_OK" or "CURLE_ERR"
    http_code,      \* long http_code
    dup_ok,         \* history: str_duplicate(chunk.memory) got its allocation
    response,       \* char *response
    doc,            \* the cJSON tree cJSON_Parse built from response
    parse_ret,      \* << >> before parse_claude_response returns, then <<0>> or <<1>>
    title,          \* char *title
    description,    \* char *description
    file,           \* the -o output file: opened, content
    exit_status,    \* << >> while running, then << status >>
    err,            \* history: category of the first failure, or "none"
    steps           \* history: the pipeline steps started, in order

vars == << pc, opt, live, chunk, delivered, nchunks, growth_failed, posts, res,
           http_code, dup_ok, response, doc, parse_ret, title, description,
           file, exit_status, err, steps >>

apiVars == << chunk, delivered, nchunks, growth_failed, posts, res, http_code,
              dup_ok >>
parseVars == << doc, parse_ret, title, description >>

\* ------------------------------------------------------------ C strings
\* Index of the first NUL of m, or 0 when m holds none.
FirstNul(m) ==
    IF \E i \in 1..Len(m) : m[i] = NUL
    THEN CHOOSE i \in 1..Len(m) : m[i] = NUL /\ \A j \in 1..(i - 1) : m[j] # NUL
    ELSE 0

\* The C string stored in m: the bytes before its first NUL (strlen + memcpy).
CStr(m) == SubSeq(m, 1, FirstNul(m) - 1)

\* ------------------------------------------------- WriteMemoryCallback
\* realsize = size * nmemb
RealSize(contents) == Len(contents)

\* AppendChunk with the copy made to the start of the buffer (mem->size
\* dropped from the memcpy destination).
AppendChunkAtStart(mem, contents) ==
    LET newsize == mem.size + RealSize(contents)
    IN  [memory |-> [i \in 1..(newsize + 1) |->
                        IF i <= RealSize(contents) THEN contents[i]
                        ELSE IF i <= mem.size THEN mem.memory[i]
                        ELSE NUL],
         size |-> newsize]

\* The buffer after realloc(mem->memory, mem->size + realsize + 1), memcpy to
\* &mem->memory[mem->size], mem->size += realsize, mem->memory[mem->size] = 0.
AppendChunk(mem, contents) ==
    LET newsize == mem.size + RealSize(contents)
    IN  [memory |-> [i \in 1..(newsize + 1) |->
                        IF i <= mem.size THEN mem.memory[i]
                        ELSE IF i <= newsize THEN contents[i - mem.size]
                        ELSE NUL],
         size |-> newsize]

\* What WriteMemoryCallback returns: 0 when realloc fails, else realsize.
CallbackReturn(contents, grew) == IF grew THEN RealSize(contents) ELSE 0

\* ------------------------------------------------------------- exits
Exit(status) ==
    /\ pc' = "exited"
    /\ exit_status' = << status >>

Fail(category) == err' = IF err = "none" THEN category ELSE err

\* ------------------------------------------------------------- main
\* main's locals before getopt (lines 530-537).  use_default_key and
\* use_default_profile are not stored: whether -k / -p was given is decided
\* where the flag is first read (lines 581, 602), and from then to the last
\* read (lines 698-703) the flag is true exactly when the path is a heap
\* allocation, that is when key_file_path / profile_path is in live.
InitOpt == [use_diff_file |-> FALSE, git_diff |-> FALSE, output_file_path |-> FALSE]

Init ==
    /\ pc = "getopt"
    /\ opt = InitOpt
    /\ live = {}
    /\ chunk = [memory |-> << >>, size |-> 0]
    /\ delivered = << >>
    /\ nchunks = 0
    /\ growth_failed = FALSE
    /\ posts = 0
    /\ res = "unset"
    /\ http_code = 0
    /\ dup_ok = FALSE
    /\ response = NULL
    /\ doc = [valid |-> FALSE, type |-> "none",
              content |-> [type |-> "absent", items |-> << >>], other |-> FALSE]
    /\ parse_ret = << >>
    /\ title = NULL
    /\ description = NULL
    /\ file = [opened |-> FALSE, content |-> << >>]
    /\ exit_status = << >>
    /\ err = "none"
    /\ steps = << >>

\* getopt loop and the positional argument (lines 539-578).
GetOpt ==
    /\ pc = "getopt"
    /\ \/ /\ Exit(0)                                   \* -h
          /\ UNCHANGED << opt, err >>
       \/ /\ Exit(1)                                   \* unknown option
          /\ Fail("UsageError")
          /\ UNCHANGED opt
       \/ /\ \E d \in BOOLEAN, o \in BOOLEAN, positional \in BOOLEAN :
               opt' = [use_diff_file |-> d, git_diff |-> (positional /\ ~d),
                       output_file_path |-> o]
          /\ pc' = "key_path"
          /\ UNCHANGED << exit_status, err >>
    /\ UNCHANGED << live, apiVars, response, parseVars, file, steps >>

\* free(key_file_path) / free(profile_path) when they came from the defaults.
FreePaths(l) == l \ {"key_file_path", "profile_path"}

\* Lines 580-589: the default key path.
KeyPath ==
    /\ pc = "key_path"
    /\ \/ /\ live' = live \cup {"key_file_path"}      \* use_default_key
          /\ pc' = "key_exists"
          /\ UNCHANGED << exit_status, err >>
       \/ /\ Exit(1)                                   \* get_default_api_key_path() == NULL
          /\ Fail("ConfigError")
          /\ UNCHANGED live
       \/ /\ pc' = "key_exists"                        \* -k was given
          /\ UNCHANGED << live, exit_status, err >>
    /\ UNCHANGED << opt, apiVars, response, parseVars, file, steps >>

\* Lines 591-599: file_exists(key_file_path).
KeyExists ==
    /\ pc = "key_exists"
    /\ \/ /\ pc' = "profile_path"
          /\ UNCHANGED << live, exit_status, err >>
       \/ /\ live' = FreePaths(live)
          /\ Exit(1)
          /\ Fail("ConfigError")
    /\ UNCHANGED << opt, apiVars, response, parseVars, file, steps >>

\* Lines 601-613: the default profile path.
ProfilePath ==
    /\ pc = "profile_path"
    /\ \/ /\ live' = live \cup {"profile_path"}       \* use_default_profile
          /\ pc' = "profile_exists"
          /\ UNCHANGED << exit_status, err >>
       \/ /\ live' = live \ {"key_file_path"}          \* get_default_profile_path() == NULL
          /\ Exit(1)
          /\ Fail("ConfigError")
       \/ /\ pc' = "profile_exists"                    \* -p was given
          /\ UNCHANGED << live, exit_status, err >>
    /\ UNCHANGED << opt, apiVars, response, parseVars, file, steps >>

\* Lines 615-626: file_exists(profile_path).
ProfileExists ==
    /\ pc = "profile_exists"
    /\ \/ /\ pc' = "diff_required"
          /\ UNCHANGED << live, exit_status, err >>
       \/ /\ live' = FreePaths(live)
          /\ Exit(1)
          /\ Fail("ConfigError")
    /\ UNCHANGED << opt, apiVars, response, parseVars, file, steps >>

\* Lines 628-639: a diff must come from the argument or from -d.
DiffRequired ==
    /\ pc = "diff_required"
    /\ \/ /\ opt.git_diff \/ opt.use_diff_file
          /\ pc' = "read_key"
          /\ UNCHANGED << live, exit_status, err >>
       \/ /\ ~opt.git_diff /\ ~opt.use_diff_file
          /\ live' = FreePaths(live)
          /\ Exit(1)
          /\ Fail("InputError")
    /\ UNCHANGED << opt, apiVars, response, parseVars, file, steps >>

\* read_file: "ok", "io" (fopen failed) or "alloc" (malloc failed).
ReadOutcomes == {"ok", "io", "alloc"}

\* Lines 641-651: read_api_key(key_file_path).
ReadKey ==
    /\ pc = "read_key"
    /\ \/ /\ live' = live \cup {"api_key"}
          /\ pc' = "read_profile"
          /\ UNCHANGED << exit_status, err >>
       \/ /\ \E o \in ReadOutcomes \ {"ok"} :
               Fail(IF o = "io" THEN "ConfigError" ELSE "AllocationError")
          /\ live' = FreePaths(live)
          /\ Exit(1)
    /\ UNCHANGED << opt, apiVars, response, parseVars, file, steps >>

\* Lines 653-664: read_file(profile_path).
ReadProfile ==
    /\ pc = "read_profile"
    /\ \/ /\ live' = live \cup {"profile"}
          /\ pc' = "read_diff"
          /\ UNCHANGED << exit_status, err >>
       \/ /\ \E o \in ReadOutcomes \ {"ok"} :
               Fail(IF o = "io" THEN "ConfigError" ELSE "AllocationError")
          /\ live' = FreePaths(live) \ {"api_key"}
          /\ Exit(1)
    /\ UNCHANGED << opt, apiVars, response, parseVars, file, steps >>

\* Lines 666-703: the diff from the -d file or a copy of the argument, then the
\* default paths are freed.
ReadDiff ==
    /\ pc = "read_diff"
    /\ \/ /\ live' = FreePaths(live) \cup {"git_diff_content"}
          /\ pc' = "call_api"
          /\ UNCHANGED << exit_status, err >>
       \/ /\ opt.use_diff_file                         \* read_file() == NULL
          /\ \E o \in ReadOutcomes \ {"ok"} :
               Fail(IF o = "io" THEN "InputError" ELSE "AllocationError")
          /\ live' = FreePaths(live) \ {"api_key", "profile"}
          /\ Exit(1)
       \/ /\ ~opt.use_diff_file                        \* str_duplicate() == NULL
          /\ Fail("AllocationError")
          /\ live' = FreePaths(live) \ {"api_key", "profile"}
          /\ Exit(1)
    /\ UNCHANGED << opt, apiVars, response, parseVars, file, steps >>

\* --------------------------------------------------- call_claude_api
\* The process dies of a signal (a read through a NULL or past a buffer).
Crash ==
    /\ pc' = "crashed"
    /\ exit_status' = << 139 >>
    /\ Fail("Crash")

\* cJSON_Delete(root) before messages and message are attached (lines 249,
\* 257, 273) and after (lines 290, 377).
DeleteRootDetached(l) == l \ {"root"}
DeleteRootAttached(l) == l \ {"root", "messages", "message"}

\* An early "return NULL" of call_claude_api (response is still NULL).
ApiReturnNull ==
    /\ pc' = "api_returned"
    /\ Fail("AllocationError")

\* Lines 225-232: chunk.memory = malloc(1); its byte is not initialised.
ApiInitChunk ==
    /\ pc = "call_api"
    /\ steps' = Append(steps, "build")
    /\ \/ /\ \E u \in Byte : chunk' = [memory |-> << u >>, size |-> 0]
          /\ live' = live \cup {"chunk.memory"}
          /\ pc' = "api_root"
          /\ UNCHANGED err
       \/ /\ ApiReturnNull
          /\ UNCHANGED << chunk, live >>
    /\ UNCHANGED << opt, delivered, nchunks, growth_failed, posts, res, http_code,
                    dup_ok, response, parseVars, file, exit_status >>

\* Lines 234-244: root = cJSON_CreateObject().
ApiCreateRoot ==
    /\ pc = "api_root"
    /\ \/ /\ live' = live \cup {"root"}
          /\ pc' = "api_messages"
          /\ UNCHANGED err
       \/ /\ live' = live \ {"chunk.memory"}
          /\ ApiReturnNull
    /\ UNCHANGED << opt, apiVars, response, parseVars, file, exit_status, steps >>

\* Lines 246-252: messages = cJSON_CreateArray().
ApiCreateMessages ==
    /\ pc = "api_messages"
    /\ \/ /\ live' = live \cup {"messages"}
          /\ pc' = "api_message"
          /\ UNCHANGED err
       \/ /\ live' = DeleteRootDetached(live) \ {"chunk.memory"}
          /\ ApiReturnNull
    /\ UNCHANGED << opt, apiVars, response, parseVars, file, exit_status, steps >>

\* Lines 254-262: message = cJSON_CreateObject().
ApiCreateMessage ==
    /\ pc = "api_message"
    /\ \/ /\ live' = live \cup {"message"}
          /\ pc' = "api_content"
          /\ UNCHANGED err
       \/ /\ live' = DeleteRootDetached(live) \ {"chunk.memory"}
          /\ ApiReturnNull
    /\ UNCHANGED << opt, apiVars, response, parseVars, file, exit_status, steps >>

\* Lines 264-284: content = malloc(content_len + 1), rendered, and the message
\* attached to messages and messages to root.
ApiRenderContent ==
    /\ pc = "api_content"
    /\ \/ /\ live' = live \cup {"content"}
          /\ pc' = "api_print"
          /\ UNCHANGED err
       \/ /\ live' = DeleteRootDetached(live) \ {"chunk.memory"}
          /\ ApiReturnNull
    /\ UNCHANGED << opt, apiVars, response, parseVars, file, exit_status, steps >>

\* Lines 286-297: json_string = cJSON_Print(root); free(content).
ApiPrintJson ==
    /\ pc = "api_print"
    /\ \/ /\ live' = (live \ {"content"}) \cup {"json_string"}
          /\ pc' = "api_curl_init"
          /\ UNCHANGED err
       \/ /\ live' = DeleteRootAttached(live \ {"content"}) \ {"chunk.memory"}
          /\ ApiReturnNull
    /\ UNCHANGED << opt, apiVars, response, parseVars, file, exit_status, steps >>

\* Lines 299-342 and 371-373: curl_easy_init(), headers and options.
ApiCurlInit ==
    /\ pc = "api_curl_init"
    /\ \/ /\ live' = live \cup {"curl", "headers"}
          /\ pc' = "api_perform"
          /\ UNCHANGED err
       \/ /\ pc' = "api_cleanup"                       \* curl == NULL
          /\ Fail("TransportError")
          /\ UNCHANGED live
    /\ UNCHANGED << opt, apiVars, response, parseVars, file, exit_status, steps >>

\* Line 344: curl_easy_perform(curl) starts the one POST.
CurlPerform ==
    /\ pc = "api_perform"
    /\ posts' = posts + 1
    /\ steps' = Append(steps, "post")
    /\ pc' = "api_transfer"
    /\ UNCHANGED << opt, live, chunk, delivered, nchunks, growth_failed, res,
                    http_code, dup_ok, response, parseVars, file, exit_status, err >>

\* Lines 44-62: curl hands one chunk to WriteMemoryCallback; curl aborts the
\* transfer (CURLE_WRITE_ERROR) when the callback returns another count than
\* it was given.
CurlDeliver ==
    /\ pc = "api_transfer"
    /\ nchunks < MaxChunks
    /\ \E contents \in SeqUpTo(Byte, MaxChunkLen), grew \in BOOLEAN :
         /\ Len(delivered) + Len(contents) <= MaxBody
         /\ delivered' = delivered \o contents
         /\ nchunks' = nchunks + 1
         /\ chunk' = IF grew THEN AppendChunk(chunk, contents) ELSE chunk
         /\ growth_failed' = (growth_failed \/ ~grew)
         /\ IF CallbackReturn(contents, grew) = RealSize(contents)
            THEN /\ pc' = "api_transfer"
                 /\ UNCHANGED << res, err >>
            ELSE /\ pc' = "api_check"
                 /\ res' = "CURLE_ERR"
                 /\ Fail("AllocationError")
    /\ UNCHANGED << opt, live, posts, http_code, dup_ok, response, parseVars,
                    file, exit_status, steps >>

\* CurlReturn with the POST tried again after a transport failure.
CurlReturnRetry ==
    /\ pc = "api_transfer"
    /\ \/ /\ res' = "CURLE_OK"
          /\ pc' = "api_check"
          /\ UNCHANGED err
       \/ /\ res' = "CURLE_ERR"
          /\ pc' = "api_perform"
          /\ Fail("TransportError")
    /\ UNCHANGED << opt, live, chunk, delivered, nchunks, growth_failed, posts,
                    http_code, dup_ok, response, parseVars, file, exit_status, steps >>

\* curl_easy_perform returns: CURLE_OK, or a transport failure (DNS, TLS,
\* connection reset, timeout) at any point of the transfer.
CurlReturn ==
    /\ pc = "api_transfer"
    /\ \/ /\ res' = "CURLE_OK"
          /\ UNCHANGED err
       \/ /\ res' = "CURLE_ERR"
          /\ Fail("TransportError")
    /\ pc' = "api_check"
    /\ UNCHANGED << opt, live, chunk, delivered, nchunks, growth_failed, posts,
                    http_code, dup_ok, response, parseVars, file, exit_status, steps >>

\* Is2xx without its upper limit.
Is2xxNoUpper(code) == code >= HTTP_OK_LO

\* Line 359: http_code >= 200 && http_code < 300.
Is2xx(code) == code >= HTTP_OK_LO /\ code < HTTP_OK_HI

\* The strings strlen/memcpy of str_duplicate (or fprintf's %s) can see in m:
\* the bytes before the first NUL; with no NUL in the allocation the read runs
\* past it into whatever bytes follow.
ReadAsText(m) ==
    IF FirstNul(m) > 0 THEN {CStr(m)}
    ELSE {m \o g : g \in SeqUpTo(Byte \ {NUL}, MaxGarbage)}

\* Lines 350-366: the result of the transfer.
ApiCheck ==
    /\ pc = "api_check"
    /\ \/ /\ res # "CURLE_OK"
          /\ pc' = "api_cleanup"
          /\ UNCHANGED << http_code, dup_ok, response, live, exit_status, err >>
       \/ /\ res = "CURLE_OK"
          /\ \E code \in HttpCodes :
               /\ http_code' = code
               /\ Is2xx(code)
          /\ \/ /\ \E s \in ReadAsText(chunk.memory) : response' = Ptr(s)
                /\ dup_ok' = TRUE
                /\ live' = live \cup {"response"}
                /\ pc' = "api_cleanup"
                /\ UNCHANGED << exit_status, err >>
             \/ /\ pc' = "api_cleanup"                 \* malloc in str_duplicate failed
                /\ Fail("AllocationError")
                /\ UNCHANGED << dup_ok, response, live, exit_status >>
             \/ /\ FirstNul(chunk.memory) = 0          \* the read past the buffer faults
                /\ Crash
                /\ UNCHANGED << dup_ok, response, live >>
       \/ /\ res = "CURLE_OK"
          /\ \E code \in HttpCodes :
               /\ http_code' = code
               /\ ~Is2xx(code)
          /\ \/ /\ pc' = "api_cleanup"
                /\ Fail("HttpStatusError")
                /\ UNCHANGED exit_status
             \/ /\ FirstNul(chunk.memory) = 0          \* fprintf("%s", chunk.memory) faults
                /\ Crash
          /\ UNCHANGED << dup_ok, response, live >>
    /\ UNCHANGED << opt, chunk, delivered, nchunks, growth_failed, posts, res,
                    parseVars, file, steps >>

\* Lines 368-380: cleanup and return response.
ApiCleanup ==
    /\ pc = "api_cleanup"
    /\ live' = DeleteRootAttached(live)
                 \ {"headers", "curl", "json_string", "chunk.memory"}
    /\ pc' = "api_returned"
    /\ UNCHANGED << opt, apiVars, response, parseVars, file, exit_status, err, steps >>

\* Lines 707-714: main's check of the returned response.
MainCheckResponse ==
    /\ pc = "api_returned"
    /\ \/ /\ response = NULL
          /\ live' = live \ {"api_key", "profile", "git_diff_content"}
          /\ Exit(1)
       \/ /\ response # NULL
          /\ pc' = "parse"
          /\ UNCHANGED << live, exit_status >>
    /\ UNCHANGED << opt, apiVars, response, parseVars, file, err, steps >>

\* ------------------------------------------------------------- cJSON
\* A parsed document as parse_claude_response can see it.  valid: cJSON_Parse
\* returned a tree; type: the root's type; content: the root's "content"
\* member (type "absent" when there is none); an item of the array is an
\* object with a "text" member (type "absent" when there is none) or another
\* kind of value; other: the root holds further members.
AbsentText == [type |-> "absent", valuestring |-> << >>]
AbsentContent == [type |-> "absent", items |-> << >>]
InvalidDoc == [valid |-> FALSE, type |-> "none", content |-> AbsentContent,
               other |-> FALSE]

TextFieldsOver(texts) ==
    {AbsentText, [type |-> "number", valuestring |-> << >>]}
      \cup {[type |-> "string", valuestring |-> t] : t \in texts}

ItemsOver(texts) ==
    {[type |-> "string", text |-> AbsentText]}
      \cup {[type |-> "object", text |-> f] : f \in TextFieldsOver(texts)}

LaterItems ==
    {[type |-> "string", text |-> AbsentText],
     [type |-> "object", text |-> [type |-> "string", valuestring |-> << 97 >>]]}

ContentsOver(texts) ==
    {AbsentContent, [type |-> "string", items |-> << >>],
     [type |-> "object", items |-> << >>], [type |-> "array", items |-> << >>]}
      \cup {[type |-> "array", items |-> << first >> \o rest] :
              first \in ItemsOver(texts),
              rest \in SeqUpTo(LaterItems, MaxItems - 1)}

DocsOver(texts) ==
    {InvalidDoc,
     [valid |-> TRUE, type |-> "array", content |-> AbsentContent, other |-> FALSE]}
      \cup {[valid |-> TRUE, type |-> "object", content |-> c, other |-> o] :
              c \in ContentsOver(texts), o \in BOOLEAN}

\* Every document with a text of at most MaxText characters.
Docs == DocsOver(SeqUpTo(Char, MaxText))

\* The documents the whole-program specification draws from.
PipelineTexts == {<< >>, << 97 >>, << 97, NL, 32 >>}
PipelineDocs ==
    {InvalidDoc}
      \cup {[valid |-> TRUE, type |-> "object", content |-> c, other |-> FALSE] :
              c \in {AbsentContent, [type |-> "array", items |-> << >>]}
                     \cup {[type |-> "array", items |-> << i >>] :
                             i \in ItemsOver(PipelineTexts) \ {[type |-> "string", text |-> AbsentText]}}}

\* cJSON_Parse(response): the empty string is no JSON document.
ParseOutcomes(resp, docs) == IF Deref(resp) = << >> THEN {InvalidDoc} ELSE docs

\* cJSON_GetObjectItem(root, "content"), NULL being AbsentContent.
GetContent(root) == IF root.type = "object" THEN root.content ELSE AbsentContent

\* FirstIndex consulting the last item of the array.
LastIndex(items) == Len(items)

\* cJSON_GetArrayItem(content, 0): the index consulted.
FirstIndex(items) == 1

\* cJSON_GetObjectItem(first_content, "text"), NULL being AbsentText.
GetText(item) == IF item.type = "object" THEN item.text ELSE AbsentText

\* ------------------------------------------------ parse_claude_response
IsBlankChar(c) == c = NL \/ c = CR

\* Lines 441-444: the index line_start stops at (Len(t) + 1: the terminator).
LineStart(t) ==
    CHOOSE i \in 1..(Len(t) + 1) :
      /\ i = Len(t) + 1 \/ ~IsBlankChar(t[i])
      /\ \A j \in 1..(i - 1) : IsBlankChar(t[j])

\* Line 447: strchr(line_start, '\n') as an index of t, 0 for NULL.
LineEnd(t) ==
    LET ls == LineStart(t)
    IN  IF \E i \in ls..Len(t) : t[i] = NL
        THEN CHOOSE i \in ls..Len(t) : t[i] = NL /\ \A j \in ls..(i - 1) : t[j] # NL
        ELSE 0

\* strncpy(dst, src, n) followed by dst[n] = '\0', read back as a string.
Strncpy(src, n) == SubSeq(src, 1, IF n < Len(src) THEN n ELSE Len(src))

\* Lines 449-456: the title of the newline branch.
TitleOf(t) ==
    Strncpy(SubSeq(t, LineStart(t), Len(t)), LineEnd(t) - LineStart(t))

\* Line 461: desc_len = strlen(text_value) - (line_end - text_value) + 1.
DescLen(t) == Len(t) - (LineEnd(t) - 1) + 1

\* DescriptionOf copying from line_end instead of line_end + 1.
DescriptionFromNewline(t) == Strncpy(SubSeq(t, LineEnd(t), Len(t)), DescLen(t) - 1)

\* Lines 462-471: the description of the newline branch.
DescriptionOf(t) == Strncpy(SubSeq(t, LineEnd(t) + 1, Len(t)), DescLen(t) - 1)

\* Lines 475-478: the title of the branch without a newline.
SingleLineTitle(t) == SubSeq(t, LineStart(t), Len(t))

ParseFailure == [ret |-> 0, title |-> NULL, description |-> NULL]

\* Lines 438-482 on text_value t; title_ok / desc_ok: the two allocations.
Segment(t, title_ok, desc_ok) ==
    IF LineEnd(t) # 0
    THEN IF ~title_ok THEN ParseFailure
         ELSE IF ~desc_ok THEN ParseFailure
         ELSE [ret |-> 1, title |-> Ptr(TitleOf(t)),
               description |-> Ptr(DescriptionOf(t))]
    ELSE [ret |-> 1,
          title |-> IF title_ok THEN Ptr(SingleLineTitle(t)) ELSE NULL,
          description |-> IF desc_ok THEN Ptr(<< >>) ELSE NULL]

\* Lines 384-483: the return value and the two outputs.
parse_claude_response(d, title_ok, desc_ok) ==
    IF ~d.valid THEN ParseFailure
    ELSE LET content == GetContent(d)
         IN  IF content.type # "array" THEN ParseFailure
             ELSE IF Len(content.items) = 0 THEN ParseFailure
             ELSE LET text == GetText(content.items[FirstIndex(content.items)])
                  IN  IF text.type # "string" THEN ParseFailure
                      ELSE Segment(text.valuestring, title_ok, desc_ok)

\* Whether a call on d with these allocation results ran out of memory.
ParseAllocFailed(d, title_ok, desc_ok) ==
    /\ parse_claude_response(d, TRUE, TRUE).ret = 1
    /\ \/ parse_claude_response(d, title_ok, desc_ok).ret = 0
       \/ parse_claude_response(d, title_ok, desc_ok).title = NULL
       \/ parse_claude_response(d, title_ok, desc_ok).description = NULL

\* Line 719: main calls parse_claude_response(response, &title, &description).
ParseResponse(docs) ==
    /\ pc = "parse"
    /\ steps' = Append(steps, "parse")
    /\ \E d \in ParseOutcomes(response, docs), title_ok \in BOOLEAN, desc_ok \in BOOLEAN :
         LET r == parse_claude_response(d, title_ok, desc_ok)
         IN  /\ doc' = d
             /\ parse_ret' = << r.ret >>
             /\ title' = r.title
             /\ description' = r.description
             /\ live' = live \cup (IF r.title # NULL THEN {"title"} ELSE {})
                             \cup (IF r.description # NULL THEN {"description"} ELSE {})
             /\ pc' = IF r.ret = 1 THEN "print" ELSE "cleanup"
             /\ IF ParseAllocFailed(d, title_ok, desc_ok) THEN Fail("AllocationError")
                ELSE IF r.ret = 0 THEN Fail("ParseError")
                ELSE UNCHANGED err
    /\ UNCHANGED << opt, apiVars, response, file, exit_status >>

\* Lines 720-722: printf of the title and the description; "%s" of a NULL
\* pointer prints a placeholder or faults.
MainPrint ==
    /\ pc = "print"
    /\ \/ /\ pc' = "save"
          /\ UNCHANGED << exit_status, err >>
       \/ /\ title = NULL \/ description = NULL
          /\ Crash
    /\ UNCHANGED << opt, live, apiVars, response, parseVars, file, steps >>

\* FileContent with a single newline between the title and the description.
FileContentOneNewline(t, d) == << 35, 32 >> \o t \o << NL >> \o d

\* Line 499: fprintf(file, "# %s\n\n%s", title, description).
FileContent(t, d) == << 35, 32 >> \o t \o << NL, NL >> \o d

\* Lines 486-504: save_results_to_file; reached: fopen(file_path, "w") succeeded.
save_results_to_file(t, d) ==
    \/ /\ t = NULL \/ d = NULL
       /\ UNCHANGED file
    \/ /\ t # NULL /\ d # NULL                      \* fopen fails
       /\ UNCHANGED file
    \/ /\ t # NULL /\ d # NULL
       /\ file' = [opened |-> TRUE, content |-> FileContent(Deref(t), Deref(d))]

\* Lines 724-727: save when -o was given.
MainSave ==
    /\ pc = "save"
    /\ \/ /\ opt.output_file_path
          /\ save_results_to_file(title, description)
       \/ /\ ~opt.output_file_path
          /\ UNCHANGED file
    /\ pc' = "cleanup"
    /\ UNCHANGED << opt, live, apiVars, response, parseVars, exit_status, err, steps >>

\* Lines 729-741: free the results and the inputs; return 0.
MainCleanup ==
    /\ pc = "cleanup"
    /\ live' = live \ ((IF parse_ret = << 1 >> THEN {"title", "description"} ELSE {})
                         \cup {"api_key", "profile", "git_diff_content", "response"})
    /\ Exit(0)
    /\ UNCHANGED << opt, apiVars, response, parseVars, file, err, steps >>

\* ------------------------------------------------------ specifications
ParsePipeline == ParseResponse(PipelineDocs)

Next ==
    \/ GetOpt
    \/ KeyPath
    \/ KeyExists
    \/ ProfilePath
    \/ ProfileExists
    \/ DiffRequired
    \/ ReadKey
    \/ ReadProfile
    \/ ReadDiff
    \/ ApiInitChunk
    \/ ApiCreateRoot
    \/ ApiCreateMessages
    \/ ApiCreateMessage
    \/ ApiRenderContent
    \/ ApiPrintJson
    \/ ApiCurlInit
    \/ CurlPerform
    \/ CurlDeliver
    \/ CurlReturn
    \/ ApiCheck
    \/ ApiCleanup
    \/ MainCheckResponse
    \/ ParsePipeline
    \/ MainPrint
    \/ MainSave
    \/ MainCleanup

Spec == Init /\ [][Next]_vars

\* parse_claude_response alone: main at line 716, holding a response, with
\* every document of the bounds.
InitParse ==
    /\ pc = "parse"
    /\ opt = [use_diff_file |-> FALSE, git_diff |-> TRUE, output_file_path |-> FALSE]
    /\ live = {"api_key", "profile", "git_diff_content", "response"}
    /\ chunk = [memory |-> << 97, NUL >>, size |-> 1]
    /\ delivered = << 97 >>
    /\ nchunks = 1
    /\ growth_failed = FALSE
    /\ posts = 1
    /\ res = "CURLE_OK"
    /\ http_code = 200
    /\ dup_ok = TRUE
    /\ response = Ptr(<< 97 >>)
    /\ doc = InvalidDoc
    /\ parse_ret = << >>
    /\ title = NULL
    /\ description = NULL
    /\ file = [opened |-> FALSE, content |-> << >>]
    /\ exit_status = << >>
    /\ err = "none"
    /\ steps = << "build", "post" >>

ParseAny == ParseResponse(Docs)

NextParse == ParseAny

SpecParse == InitParse /\ [][NextParse]_vars

\* --------------------------------------------------------------- claims
FailureCategories ==
    {"ConfigError", "InputError", "AllocationError", "TransportError",
     "HttpStatusError", "ParseError"}

Status2xx == http_code \in 200..299

\* The document holds a string content[0].text.
WellFormed(d) ==
    /\ d.valid
    /\ d.type = "object"
    /\ d.content.type = "array"
    /\ Len(d.content.items) >= 1
    /\ d.content.items[1].type = "object"
    /\ d.content.items[1].text.type = "string"

TextIn(d) == d.content.items[1].text.valuestring

HasNewline(t) == \E i \in 1..Len(t) : t[i] = NL

\* t holds a newline after its leading run of newline / carriage-return
\* characters.
HasNewlineAfterBlanks(t) ==
    \E i \in 1..Len(t) : t[i] = NL /\ \E j \in 1..(i - 1) : ~IsBlankChar(t[j])

\* t = blanks \o T \o << NL >> \o D, blanks made of newline / carriage-return
\* characters only, T not empty, not starting with one of them and without
\* a newline.
IsSplit(t, T, D) ==
    /\ T # << >>
    /\ ~IsBlankChar(T[1])
    /\ \A i \in 1..Len(T) : T[i] # NL
    /\ \E b \in 0..Len(t) :
         /\ \A i \in 1..b : IsBlankChar(t[i])
         /\ t = SubSeq(t, 1, b) \o T \o << NL >> \o D

\* d without the later items of content and without the other members.
OnlyFirstText(d) ==
    [d EXCEPT !.other = FALSE,
              !.content.items = IF Len(@) >= 1 THEN << @[1] >> ELSE @]

\* C1: a run of the pipeline exits with status 0 only when the whole pipeline
\* succeeded (a body was returned and parsed into a title and a description),
\* and a run that ended in a failure category exits with a non-zero status.
C1_ExitStatus ==
    pc = "exited" =>
      /\ (exit_status = << 0 >> /\ steps # << >>) =>
            (response # NULL /\ parse_ret = << 1 >>)
      /\ err \in FailureCategories => exit_status # << 0 >>

\* C2 as stated: call_claude_api returns a body if and only if the transfer
\* completed without a transport error and the HTTP status is in 200..299.
C2_BodyIffOk2xx ==
    pc = "api_returned" => (response # NULL <=> (res = "CURLE_OK" /\ Status2xx))

\* C2 as amended: call_claude_api returns a body if and only if the transfer
\* completed without a transport error, the HTTP status is in 200..299 and
\* str_duplicate got the memory for its copy; after a non-2xx status or a
\* transport failure (also one raised by the write callback after chunks were
\* accumulated) no body is returned, parse_claude_response is not called and
\* no title or description exists.
C2_BodyOnlyOnSuccess ==
    /\ pc = "api_returned" =>
         (response # NULL <=> (res = "CURLE_OK" /\ Status2xx /\ dup_ok))
    /\ response # NULL => (res = "CURLE_OK" /\ Status2xx)
    /\ ~(res = "CURLE_OK" /\ Status2xx) =>
         /\ pc \notin {"parse", "print", "save", "cleanup"}
         /\ parse_ret = << >>
         /\ title = NULL
         /\ description = NULL
         /\ \A i \in 1..Len(steps) : steps[i] # "parse"

\* A transfer the write callback aborted after bytes were accumulated
\* returned no body.
C2_Witness ==
    /\ pc = "api_returned"
    /\ growth_failed
    /\ chunk.size >= 1
    /\ res = "CURLE_ERR"
    /\ response = NULL

\* C3: whenever parse_claude_response returns 1, the title is a non-empty
\* string.
C3_TitleNonEmpty ==
    (parse_ret = << 1 >> /\ title # NULL /\ description # NULL) =>
        Deref(title) # << >>

\* C4: after any sequence of chunks whose growths all succeeded, the first
\* mem->size bytes are the concatenation of the chunks in arrival order and
\* mem->size is the sum of their sizes; a call only appends.
C4_Concatenation ==
    /\ [](( pc \in {"api_transfer", "api_check", "api_cleanup"} /\ ~growth_failed ) =>
            /\ chunk.size = Len(delivered)
            /\ Len(chunk.memory) = chunk.size + 1
            /\ SubSeq(chunk.memory, 1, chunk.size) = delivered)
    /\ [][ pc = "api_transfer" =>
             /\ chunk'.size >= chunk.size
             /\ SubSeq(chunk'.memory, 1, chunk.size)
                  = SubSeq(chunk.memory, 1, chunk.size) ]_vars

\* Three calls, two of them with zero-length chunks and one with a single
\* byte: the buffer holds that byte.
C4_Witness ==
    /\ pc = "api_transfer"
    /\ nchunks = 3
    /\ ~growth_failed
    /\ delivered = << 98 >>
    /\ chunk.size = 1

\* C5: on a 2xx status the value call_claude_api returns equals, byte for
\* byte and in full length, the concatenation of the chunks delivered.
C5_ReturnsWholeBody ==
    ( /\ pc = "api_returned"
      /\ res = "CURLE_OK"
      /\ Status2xx
      /\ response # NULL
      /\ nchunks >= 1
      /\ ~growth_failed ) => Deref(response) = delivered

\* C6: for a text with a newline after its leading newline / carriage-return
\* characters, a successful parse gives title = the characters from the first
\* other character up to the following newline and description = every
\* character after that newline; the call fails only for lack of memory.
C6_TitleAndDescription ==
    ( /\ parse_ret # << >>
      /\ WellFormed(doc)
      /\ HasNewlineAfterBlanks(TextIn(doc)) ) =>
        \/ /\ parse_ret = << 1 >>
           /\ title # NULL
           /\ description # NULL
           /\ IsSplit(TextIn(doc), Deref(title), Deref(description))
        \/ /\ parse_ret = << 0 >>
           /\ err = "AllocationError"

\* "\n\nFix\nX" with one character per word: title "a", description "a".
C6_Witness ==
    /\ parse_ret = << 1 >>
    /\ WellFormed(doc)
    /\ TextIn(doc) = << NL, NL, 97, NL, 97 >>
    /\ title = Ptr(<< 97 >>)
    /\ description = Ptr(<< 97 >>)

\* C7: for a text without any newline, parse_claude_response succeeds with
\* title = the entire text, unchanged, and description = "".
C7_SingleLine ==
    ( /\ parse_ret = << 1 >>
      /\ title # NULL
      /\ description # NULL
      /\ WellFormed(doc)
      /\ ~HasNewline(TextIn(doc)) ) =>
        /\ Deref(title) = TextIn(doc)
        /\ Deref(description) = << >>

\* C8: a body that is not JSON, or has no "content" array, or an empty one,
\* or whose first item has no string "text", gives return value 0, no title,
\* no description and no crash; and the outcome of a call is one the call has
\* on the document with only content[0].text kept.
C8_ParseError ==
    parse_ret # << >> =>
      /\ ~WellFormed(doc) =>
           /\ parse_ret = << 0 >>
           /\ title = NULL
           /\ description = NULL
           /\ pc = "cleanup"
           /\ err = "ParseError"
      /\ \E title_ok \in BOOLEAN, desc_ok \in BOOLEAN :
           LET r == parse_claude_response(OnlyFirstText(doc), title_ok, desc_ok)
           IN  /\ parse_ret = << r.ret >>
               /\ title = r.title
               /\ description = r.description

\* {"content": []} was parsed: return value 0.
C8_Witness ==
    /\ parse_ret = << 0 >>
    /\ doc.valid
    /\ doc.type = "object"
    /\ doc.content = [type |-> "array", items |-> << >>]
    /\ title = NULL

\* C9: the output file is opened only after call_claude_api returned a body
\* and parse_claude_response succeeded, and then holds exactly
\* "# {title}\n\n{description}"; in a run with a failure it is never opened
\* or written.
C9_OutputFile ==
    /\ file.opened =>
         /\ opt.output_file_path
         /\ response # NULL
         /\ parse_ret = << 1 >>
         /\ title # NULL
         /\ description # NULL
         /\ err = "none"
         /\ file.content =
              << 35, 32 >> \o Deref(title) \o << 10, 10 >> \o Deref(description)
    /\ err # "none" => (~file.opened /\ file.content = << >>)

\* The file was written from title "a" and description " ".
C9_Witness ==
    /\ file.opened
    /\ title = Ptr(<< 97 >>)
    /\ description = Ptr(<< 32 >>)
    /\ file.content = << 35, 32, 97, 10, 10, 32 >>

\* C10: the steps run in the order build, POST, parse; the POST is performed
\* at most once; the parser starts only after the transport step returned;
\* once a step has failed no later step starts.
C10_StrictOrder ==
    /\ [](/\ posts <= 1
          /\ steps \in {<< >>, << "build" >>, << "build", "post" >>,
                        << "build", "post", "parse" >>}
          /\ Len(steps) = 3 =>
               /\ res = "CURLE_OK"
               /\ pc \in {"print", "save", "cleanup", "exited", "crashed"})
    /\ [][ err # "none" => (steps' = steps /\ posts' = posts) ]_vars

\* A transport failure after the POST: the run ended without a parse.
C10_Witness ==
    /\ pc = "exited"
    /\ err = "TransportError"
    /\ steps = << "build", "post" >>
    /\ posts = 1

\* What main still owns when call_claude_api has returned.
MainInputs == {"api_key", "profile", "git_diff_content"}

\* C11: on every failure path of the pipeline every resource built so far has
\* been released when the failure is reported: when call_claude_api returns
\* NULL nothing it allocated is still held, and when main exits after a
\* failure of the pipeline no allocation is left.
C11_ReleasedOnFailure ==
    /\ (pc = "api_returned" /\ response = NULL) => live \subseteq MainInputs
    /\ (pc = "exited" /\ steps # << >> /\ err \in FailureCategories) => live = {}

\* C12: where the response buffer is read as text (str_duplicate on 2xx, the
\* "%s" of the diagnostic on non-2xx) it is terminated at index mem->size:
\* memory[size] == 0, also when no chunk was delivered.
C12_Terminated ==
    (pc = "api_check" /\ res = "CURLE_OK") =>
        /\ Len(chunk.memory) = chunk.size + 1
        /\ chunk.memory[chunk.size + 1] = NUL

\* C13: parse_claude_response returns 1 only with *title and *description
\* both non-NULL and 0 only with both NULL, so main prints no NULL string.
C13_ReturnAgreesWithOutputs ==
    /\ parse_ret = << 1 >> => (title # NULL /\ description # NULL)
    /\ parse_ret = << 0 >> => (title = NULL /\ description = NULL)
    /\ pc = "print" => (title # NULL /\ description # NULL)

====
